---- MODULE Spec2Model ----
(***************************************************************************)
(* Model of combine_crimes_with_naptan_data.py: loading police crime CSVs   *)
(* and NaPTAN stop CSVs, converting them to point tables, buffering the     *)
(* stops by NAPTAN_BUFFER_M metres in EPSG:27700, joining the incidents to  *)
(* the buffers and counting crimes per (NaptanCode, Crime type).            *)
(*                                                                          *)
(* Coordinates are integers.  Geographic coordinates (EPSG:4326) are in     *)
(* grid units; the projection to EPSG:27700 multiplies by MetresPerUnit,    *)
(* so every projected coordinate is a multiple of 10 metres.  On that grid  *)
(* no point lies between the 64-gon that shapely's buffer() builds and the  *)
(* circle it approximates, and the grid points at distance exactly r are    *)
(* vertices or boundary points of the polygon, so "within the buffer" is    *)
(* exactly "squared distance < r^2".                                        *)
(***************************************************************************)
EXTENDS Integers, Sequences, FiniteSets, TLC

\* ------------------------------------------------------------------------
\* Bounds of the model
\* ------------------------------------------------------------------------
MaxIncidents == 5

MaxStops == 3

MaxPts == 2

MaxFiles == 3

\* ------------------------------------------------------------------------
\* Program constants
\* ------------------------------------------------------------------------
CRIME_DATA_PATH == "E:/Data/Crime Data"

NAPTAN_DIR == "E:/Data/NaPTAN"

GEOMETRY_COL == "geometry"

NAPTAN_BUFFER_M == 100

GROUPBY_COLS == <<"NaptanCode", "Crime type">>

\* ------------------------------------------------------------------------
\* Values
\* ------------------------------------------------------------------------
\* a float cell: <<v>> holds the number v, NaN is the empty cell that
\* pd.read_csv turns into nan
NaN == <<>>

Float(v) == <<v>>

\* the missing value of a text column (an empty CSV cell)
NA == "nan"

\* a missing geometry (None): what GeoSeries.notna() tests for
Null == [kind |-> "null"]

\* a point geometry whose coordinates are nan: an object, not a missing value
NaNPoint == [kind |-> "nan_point"]

\* the buffer of a point without coordinates
EmptyPolygon == [kind |-> "empty_polygon"]

Point(x, y) == [kind |-> "point", x |-> x, y |-> y]

\* the polygon buffer() builds around the point (cx, cy) with radius r
Disc(cx, cy, r) == [kind |-> "polygon", cx |-> cx, cy |-> cy, r |-> r]

\* the value of gdf.crs of a table without a CRS, and of a missing table
None == "None"

WGS84 == "EPSG:4326"

OSGB == "EPSG:27700"

\* an exception: its type and the identifiers (CRS, path) it carries to the
\* user; NoExc stands for normal completion
Exc(type, names) == [type |-> type, names |-> names]

NoExc == Exc("none", {})

\* what `raise f"..."` surfaces: a str is no exception, so Python raises
\* TypeError("exceptions must derive from BaseException"); the formatted
\* text, and the CRS it names, are lost
RaiseStr(names) == Exc("TypeError", {})

MetresPerUnit == 10

\* ------------------------------------------------------------------------
\* Tables.  A table is [type, active, colcrs, rows]: the Python type of the
\* value, the name of the active geometry column ("None" when there is
\* none), the CRS tag of each geometry column, and the rows (records, one
\* field per column).
\* ------------------------------------------------------------------------
\* pd.DataFrame()
EmptyDataFrame == [type |-> "DataFrame", active |-> None, colcrs |-> <<>>, rows |-> <<>>]

\* the value None, where a table is expected
NoneValue == [type |-> "NoneType", active |-> None, colcrs |-> <<>>, rows |-> <<>>]

Crs(gdf) == IF gdf.active = None THEN None ELSE gdf.colcrs[gdf.active]

\* pyproj's transformation of one coordinate
ReprojectCoord(v, from, to) ==
    IF from = to THEN v
    ELSE IF to = OSGB THEN v * MetresPerUnit
    ELSE v \div MetresPerUnit

\* the transformation of one geometry: a missing, nan or empty geometry has
\* no coordinates to transform
Reproject(g, from, to) ==
    IF g.kind = "point"
    THEN Point(ReprojectCoord(g.x, from, to), ReprojectCoord(g.y, from, to))
    ELSE IF g.kind = "polygon"
    THEN Disc(ReprojectCoord(g.cx, from, to), ReprojectCoord(g.cy, from, to),
              ReprojectCoord(g.r, from, to))
    ELSE g

\* GeoDataFrame.to_crs: raises ValueError on a table without CRS ("Cannot
\* transform naive geometries"); otherwise transforms the active geometry
\* column and tags it.  `ok` is the library's outcome: FALSE is the outcome
\* the callers guard against, a table that still carries its old CRS.
to_crs(gdf, crs, ok) ==
    IF Crs(gdf) = None THEN [exc |-> Exc("ValueError", {}), gdf |-> gdf]
    ELSE IF ~ok THEN [exc |-> NoExc, gdf |-> gdf]
    ELSE [exc |-> NoExc,
          gdf |-> [gdf EXCEPT
                     !.colcrs = [gdf.colcrs EXCEPT ![gdf.active] = crs],
                     !.rows = [i \in 1..Len(gdf.rows) |->
                                 [gdf.rows[i] EXCEPT ![gdf.active] =
                                     Reproject(gdf.rows[i][gdf.active], Crs(gdf), crs)]]]]

\* check_crs without its last verification: hands the table back after the
\* second attempt whatever CRS it carries
check_crs_unverified(gdf, crs, oks) ==
    IF Crs(gdf) = crs THEN [exc |-> NoExc, gdf |-> gdf, attempts |-> 0]
    ELSE LET a == to_crs(gdf, crs, oks[1])
         IN IF a.exc # NoExc THEN [exc |-> a.exc, gdf |-> gdf, attempts |-> 1]
            ELSE IF Crs(a.gdf) = crs THEN [exc |-> NoExc, gdf |-> a.gdf, attempts |-> 1]
            ELSE LET b == to_crs(a.gdf, crs, oks[2])
                 IN IF b.exc # NoExc THEN [exc |-> b.exc, gdf |-> a.gdf, attempts |-> 2]
                    ELSE [exc |-> NoExc, gdf |-> b.gdf, attempts |-> 2]

\* check_crs(gdf, crs).  oks are the outcomes of its (at most two) to_crs
\* calls; attempts counts the to_crs calls made.
check_crs(gdf, crs, oks) ==
    IF Crs(gdf) = crs THEN [exc |-> NoExc, gdf |-> gdf, attempts |-> 0]
    ELSE LET a == to_crs(gdf, crs, oks[1])
         IN IF a.exc # NoExc THEN [exc |-> a.exc, gdf |-> gdf, attempts |-> 1]
            ELSE IF Crs(a.gdf) = crs THEN [exc |-> NoExc, gdf |-> a.gdf, attempts |-> 1]
            ELSE LET b == to_crs(a.gdf, crs, oks[2])
                 IN IF b.exc # NoExc THEN [exc |-> b.exc, gdf |-> a.gdf, attempts |-> 2]
                    ELSE IF Crs(b.gdf) = crs
                         THEN [exc |-> NoExc, gdf |-> b.gdf, attempts |-> 2]
                    ELSE [exc |-> RaiseStr({Crs(b.gdf), crs}),
                          gdf |-> b.gdf, attempts |-> 2]

\* ------------------------------------------------------------------------
\* Conversion to point tables
\* ------------------------------------------------------------------------
\* gpd.points_from_xy for one row.  A row without coordinates gets the
\* geometry `missing`, which the library underneath decides: shapely builds
\* the object POINT (nan nan) there, a geometry that notna() keeps; a
\* library that answers None instead is the other outcome.
points_from_xy(x, y, missing) ==
    IF x = NaN \/ y = NaN THEN missing ELSE Point(x[1], y[1])

\* create_geospatial_dataset(df, x_col, y_col, crs); df is the sequence of
\* rows read from the CSV file
create_geospatial_dataset(df, x_col, y_col, crs, missing) ==
    LET geo_df == [type |-> "GeoDataFrame",
                   active |-> "geometry",
                   colcrs |-> ("geometry" :> crs),
                   rows |-> [i \in 1..Len(df) |->
                               df[i] @@ ("geometry" :>
                                   points_from_xy(df[i][x_col], df[i][y_col], missing))]]
    IN IF Crs(geo_df) # crs THEN to_crs(geo_df, crs, TRUE).gdf ELSE geo_df

\* GeoSeries.buffer for one geometry
buffer(g, buffer_m) ==
    IF g.kind = "point" THEN Disc(g.x, g.y, buffer_m)
    ELSE IF g.kind = "nan_point" THEN EmptyPolygon
    ELSE g

\* the name f"buffered_{geom_col}"
BufferedCol(geom_col) == IF geom_col = "geometry" THEN "buffered_geometry" ELSE "buffered_"

\* apply_point_buffer without the check of the CRS after the conversion
apply_point_buffer_unchecked(gdf, buffer_m, geom_col, ok) ==
    LET a == IF Crs(gdf) # OSGB THEN to_crs(gdf, OSGB, ok)
             ELSE [exc |-> NoExc, gdf |-> gdf]
    IN IF a.exc # NoExc THEN a
       ELSE [exc |-> NoExc,
             gdf |-> [a.gdf EXCEPT
                        !.colcrs = @ @@ (BufferedCol(geom_col) :> a.gdf.colcrs[geom_col]),
                        !.rows = [i \in 1..Len(a.gdf.rows) |->
                                    a.gdf.rows[i] @@ (BufferedCol(geom_col) :>
                                        buffer(a.gdf.rows[i][geom_col], buffer_m))]]]

\* apply_point_buffer(gdf, buffer_m, geom_col); ok is the outcome of its
\* to_crs call.  The new column is a GeoSeries of its own and carries the CRS
\* of the column it was buffered from.
apply_point_buffer(gdf, buffer_m, geom_col, ok) ==
    LET a == IF Crs(gdf) # OSGB THEN to_crs(gdf, OSGB, ok)
             ELSE [exc |-> NoExc, gdf |-> gdf]
    IN IF a.exc # NoExc THEN a
       ELSE IF Crs(a.gdf) # OSGB
            THEN [exc |-> RaiseStr({Crs(a.gdf)}), gdf |-> a.gdf]
       ELSE [exc |-> NoExc,
             gdf |-> [a.gdf EXCEPT
                        !.colcrs = @ @@ (BufferedCol(geom_col) :> a.gdf.colcrs[geom_col]),
                        !.rows = [i \in 1..Len(a.gdf.rows) |->
                                    a.gdf.rows[i] @@ (BufferedCol(geom_col) :>
                                        buffer(a.gdf.rows[i][geom_col], buffer_m))]]]

\* ------------------------------------------------------------------------
\* The file system.  A file or directory name is a sequence of tokens
\* (<<"2023", "-01">>, <<"street", ".csv">>), so that directory[:4],
\* `".csv" in filename` and str.replace can be computed.  fs maps the path of
\* each existing root directory to its listing, a sequence of entries
\* [name, files, rows]: files lists a subdirectory, rows is the content of a
\* CSV file.
\* ------------------------------------------------------------------------
Contains(filename, tok) == \E i \in 1..Len(filename) : filename[i] = tok

\* filename.replace(old, new)
Replace(filename, old, new) ==
    [i \in 1..Len(filename) |-> IF filename[i] = old THEN new ELSE filename[i]]

\* filename.replace(old, "")
Remove(filename, old) == SelectSeq(filename, LAMBDA t : t # old)

\* os.listdir of a listing: the names, in listing order
listdir(entries) == [i \in 1..Len(entries) |-> entries[i].name]

\* [filename for filename in os.listdir(...) if ".csv" in filename]
csv_files(entries) == SelectSeq(listdir(entries), LAMBDA f : Contains(f, ".csv"))

HasEntry(entries, name) == \E i \in 1..Len(entries) : entries[i].name = name

Entry(entries, name) == entries[CHOOSE i \in 1..Len(entries) : entries[i].name = name]

\* pd.concat([combined_data, data]): pandas leaves the (0, 0)-shaped
\* pd.DataFrame() out and builds the result from the first table left
pd_concat(combined_data, data) ==
    IF combined_data = EmptyDataFrame THEN data
    ELSE [combined_data EXCEPT !.rows = @ \o data.rows]

\* len(x); None has no len()
HasLen(x) == x.type # "NoneType"

\* ------------------------------------------------------------------------
\* read_naptan_data.  a = [data_dir, x_col, y_col, crs, export_geo, missing]
\* are the arguments; st is the position in the function and its locals:
\* read and written log the files pd.read_csv read and to_file wrote.
\* ------------------------------------------------------------------------
naptan_start ==
    [pc |-> "listdir", stops_files |-> <<>>, i |-> 1, read |-> <<>>,
     written |-> <<>>, ret |-> NoneValue, exc |-> NoExc]

\* the loop body with its `return` moved out of the loop: every file is
\* read, the last one is returned
naptan_iteration_no_return(st, fs, a) ==
    LET file == st.stops_files[st.i]
        stop_data == Entry(fs[a.data_dir], file).rows
        geo_stop_data == create_geospatial_dataset(stop_data, a.x_col, a.y_col,
                                                   a.crs, a.missing)
    IN [st EXCEPT !.read = Append(@, file),
                  !.written = IF a.export_geo
                              THEN Append(@, <<"geo_">> \o Replace(file, ".csv", ".gpkg"))
                              ELSE @,
                  !.ret = geo_stop_data,
                  !.i = @ + 1,
                  !.pc = IF st.i = Len(st.stops_files) THEN "returned" ELSE "for_file"]

\* one pass through the body of `for file in stops_files`, which ends in
\* `return geo_stop_data`
naptan_iteration(st, fs, a) ==
    LET file == st.stops_files[st.i]
        stop_data == Entry(fs[a.data_dir], file).rows
        geo_stop_data == create_geospatial_dataset(stop_data, a.x_col, a.y_col,
                                                   a.crs, a.missing)
    IN [st EXCEPT !.read = Append(@, file),
                  !.written = IF a.export_geo
                              THEN Append(@, <<"geo_">> \o Replace(file, ".csv", ".gpkg"))
                              ELSE @,
                  !.ret = geo_stop_data,
                  !.pc = "returned"]

\* one step of read_naptan_data
naptan_step(st, fs, a) ==
    IF st.pc = "listdir"
    THEN IF a.data_dir \notin DOMAIN fs
         THEN [st EXCEPT !.pc = "raised",
                         !.exc = Exc("FileNotFoundError", {a.data_dir})]
         ELSE [st EXCEPT !.pc = "for_file", !.i = 1,
                         !.stops_files = csv_files(fs[a.data_dir])]
    ELSE IF st.pc = "for_file"
    THEN IF st.i > Len(st.stops_files)
         THEN [st EXCEPT !.pc = "returned", !.ret = NoneValue]
         ELSE naptan_iteration(st, fs, a)
    ELSE st

RECURSIVE naptan_run(_, _, _)
naptan_run(st, fs, a) ==
    IF st.pc \in {"returned", "raised"} THEN st
    ELSE naptan_run(naptan_step(st, fs, a), fs, a)

\* read_naptan_data(data_dir, x_col, y_col, crs, export_geo)
read_naptan_data(fs, a) == naptan_run(naptan_start, fs, a)

\* ------------------------------------------------------------------------
\* read_and_create_geo_data.  all_data maps a year to a mapping from dataset
\* name to table; read logs the <<root, directory, file>> that pd.read_csv
\* read.
\* ------------------------------------------------------------------------
crime_start ==
    [pc |-> "listdir", crime_data_directories |-> <<>>, di |-> 1,
     crime_data_files |-> <<>>, fi |-> 1, all_data |-> <<>>,
     combined_data |-> EmptyDataFrame, pbar |-> 0, read |-> <<>>,
     written |-> <<>>, exc |-> NoExc]

\* the root the loader reads the files of `directory` from:
\* path = CRIME_DATA_PATH / directory
crime_path_root(a) == CRIME_DATA_PATH

\* the head of `for directory in crime_data_directories`
crime_enter_dir(st, fs, a) ==
    LET directory == st.crime_data_directories[st.di]
        year == directory[1]
        all_data == IF year \in DOMAIN st.all_data THEN st.all_data
                    ELSE st.all_data @@ (year :> <<>>)
        root == crime_path_root(a)
    IN IF root \notin DOMAIN fs \/ ~HasEntry(fs[root], directory)
       THEN [st EXCEPT !.all_data = all_data, !.pc = "raised",
                       !.exc = Exc("FileNotFoundError", {<<root, directory>>})]
       ELSE [st EXCEPT !.all_data = all_data, !.pc = "for_file", !.fi = 1,
                       !.crime_data_files = csv_files(Entry(fs[root], directory).files)]

\* the body of `for file in crime_data_files`
crime_process_file(st, fs, a) ==
    LET directory == st.crime_data_directories[st.di]
        year == directory[1]
        file == st.crime_data_files[st.fi]
        root == crime_path_root(a)
        data == create_geospatial_dataset(
                    Entry(Entry(fs[root], directory).files, file).rows,
                    a.x_col, a.y_col, a.crs, a.missing)
    IN [st EXCEPT !.read = Append(@, <<root, directory, file>>),
                  !.written = IF a.export_geo
                              THEN Append(@, <<root, directory,
                                       <<"geo_">> \o Replace(file, ".csv", ".gpkg")>>)
                              ELSE @,
                  !.all_data[year] = (Remove(file, ".csv") :> data) @@ @,
                  !.combined_data = pd_concat(@, data),
                  !.fi = @ + 1]

\* one step of read_and_create_geo_data
crime_step(st, fs, a) ==
    IF st.pc = "listdir"
    THEN IF a.data_dir \notin DOMAIN fs
         THEN [st EXCEPT !.pc = "raised",
                         !.exc = Exc("FileNotFoundError", {a.data_dir})]
         ELSE [st EXCEPT !.pc = "for_dir", !.di = 1,
                         !.crime_data_directories = listdir(fs[a.data_dir])]
    ELSE IF st.pc = "for_dir"
    THEN IF st.di > Len(st.crime_data_directories)
         THEN [st EXCEPT !.pc = "returned"]
         ELSE crime_enter_dir(st, fs, a)
    ELSE IF st.pc = "for_file"
    THEN IF st.fi > Len(st.crime_data_files)
         THEN [st EXCEPT !.pc = "for_dir", !.di = @ + 1, !.pbar = @ + 1]
         ELSE crime_process_file(st, fs, a)
    ELSE st

RECURSIVE crime_run(_, _, _)
crime_run(st, fs, a) ==
    IF st.pc \in {"returned", "raised"} THEN st
    ELSE crime_run(crime_step(st, fs, a), fs, a)

\* read_and_create_geo_data(data_dir, x_col, y_col, crs, export_geo)
read_and_create_geo_data(fs, a) == crime_run(crime_start, fs, a)

\* ------------------------------------------------------------------------
\* The spatial join and the aggregation
\* ------------------------------------------------------------------------
\* the predicate "within" of a point and a buffer polygon: a point on the
\* boundary is not within, a geometry without coordinates is within nothing
Within(g, poly) ==
    /\ g.kind = "point"
    /\ poly.kind = "polygon"
    /\ (g.x - poly.cx) * (g.x - poly.cx) + (g.y - poly.cy) * (g.y - poly.cy)
          < poly.r * poly.r

\* the row sjoin builds of a matching pair: the left row, the right row
\* without its geometry, its position as index_right, and the columns of
\* both sides that share a name suffixed _left and _right
JoinedRow(l, r, j) ==
    ("Crime ID" :> l["Crime ID"]) @@ ("Crime type" :> l["Crime type"]) @@
    [geometry |-> l.geometry,
     Longitude_left |-> l.Longitude,
     Latitude_left |-> l.Latitude,
     index_right |-> j,
     ATCOCode |-> r.ATCOCode,
     NaptanCode |-> r.NaptanCode,
     Longitude_right |-> r.Longitude,
     Latitude_right |-> r.Latitude]

\* sjoin with predicate="intersects": a point on the boundary of a buffer
\* matches it
sjoin_intersects(left_df, right_df) ==
    LET n == Len(left_df.rows)
        m == Len(right_df.rows)
        pairs == [k \in 1..(n * m) |-> <<((k - 1) \div m) + 1, ((k - 1) % m) + 1>>]
        touches(g, poly) ==
            /\ g.kind = "point"
            /\ poly.kind = "polygon"
            /\ (g.x - poly.cx) * (g.x - poly.cx) + (g.y - poly.cy) * (g.y - poly.cy)
                  <= poly.r * poly.r
        hits == SelectSeq(pairs, LAMBDA p :
                    touches(left_df.rows[p[1]][left_df.active],
                            right_df.rows[p[2]][right_df.active]))
    IN [i \in 1..Len(hits) |->
           JoinedRow(left_df.rows[hits[i][1]], right_df.rows[hits[i][2]], hits[i][2])]

\* gpd.sjoin(how="inner", left_df, right_df, predicate="within"): the
\* geometries are compared as they are; differing CRS only draw a warning
sjoin(left_df, right_df) ==
    LET n == Len(left_df.rows)
        m == Len(right_df.rows)
        pairs == [k \in 1..(n * m) |-> <<((k - 1) \div m) + 1, ((k - 1) % m) + 1>>]
        hits == SelectSeq(pairs, LAMBDA p :
                    Within(left_df.rows[p[1]][left_df.active],
                           right_df.rows[p[2]][right_df.active]))
    IN [i \in 1..Len(hits) |->
           JoinedRow(left_df.rows[hits[i][1]], right_df.rows[hits[i][2]], hits[i][2])]

RECURSIVE SumCol(_, _, _)
\* the sum of column col over the rows of `joined` at the positions in idx
SumCol(joined, idx, col) ==
    IF idx = {} THEN 0
    ELSE LET i == CHOOSE j \in idx : TRUE
         IN joined[i][col] + SumCol(joined, idx \ {i}, col)

\* .groupby(GROUPBY_COLS).sum(), its column crime_count: one row per group;
\* groupby (dropna=True) leaves out the rows with a missing key
groupby_sum(joined) ==
    LET keyed == {i \in 1..Len(joined) :
                     \A c \in 1..Len(GROUPBY_COLS) : joined[i][GROUPBY_COLS[c]] # NA}
        keys == {<<joined[i][GROUPBY_COLS[1]], joined[i][GROUPBY_COLS[2]]>> : i \in keyed}
    IN {(GROUPBY_COLS[1] :> k[1]) @@ (GROUPBY_COLS[2] :> k[2]) @@
        [crime_count |-> SumCol(joined,
                            {i \in keyed : /\ joined[i][GROUPBY_COLS[1]] = k[1]
                                           /\ joined[i][GROUPBY_COLS[2]] = k[2]},
                            "crime_count")] : k \in keys}

\* df[df[GEOMETRY_COL].notna()]
notna_rows(df) ==
    [df EXCEPT !.rows = SelectSeq(@, LAMBDA r : r[GEOMETRY_COL] # Null)]

\* naptan_data.drop(columns=[GEOMETRY_COL]) followed by
\* gpd.GeoDataFrame(data=naptan_data, geometry=f"buffered_{GEOMETRY_COL}")
set_buffer_geometry(gdf) ==
    [type |-> "GeoDataFrame",
     active |-> BufferedCol(GEOMETRY_COL),
     colcrs |-> [c \in DOMAIN gdf.colcrs \ {GEOMETRY_COL} |-> gdf.colcrs[c]],
     rows |-> [i \in 1..Len(gdf.rows) |->
                 [c \in DOMAIN gdf.rows[i] \ {GEOMETRY_COL} |-> gdf.rows[i][c]]]]

\* ------------------------------------------------------------------------
\* Inputs
\* ------------------------------------------------------------------------
\* what points_from_xy may give a row without coordinates
MissingGeometries == {NaNPoint, Null}

\* the k-th incident of the input universe: position (grid units) and type.
\* Incident 4 has no coordinates.
IncidentXY(k) ==
    CASE k = 1 -> <<Float(1), Float(0)>>
      [] k = 2 -> <<Float(20), Float(0)>>
      [] k = 3 -> <<Float(5), Float(5)>>
      [] k = 4 -> <<NaN, NaN>>
      [] k = 5 -> <<Float(0), Float(1)>>
      [] OTHER -> <<Float(k), Float(k)>>

IncidentType(k) == IF k <= 3 THEN "Burglary" ELSE "Theft"

CrimeRow(k) ==
    ("Crime ID" :> k) @@ ("Crime type" :> IncidentType(k)) @@
    [Longitude |-> IncidentXY(k)[1], Latitude |-> IncidentXY(k)[2]]

\* the k-th stop of the input universe.  Stops 1 and 2 are 100 m apart;
\* stop 3 has no NaptanCode; stop 4 has no coordinates.
StopXY(k) ==
    CASE k = 1 -> <<Float(0), Float(0)>>
      [] k = 2 -> <<Float(10), Float(0)>>
      [] k = 3 -> <<Float(0), Float(1)>>
      [] k = 4 -> <<NaN, NaN>>
      [] OTHER -> <<Float(10 * k), Float(0)>>

StopCode(k) ==
    CASE k = 1 -> "s1" [] k = 2 -> "s2" [] k = 3 -> NA [] k = 4 -> "s4" [] OTHER -> "s5"

StopRow(k) ==
    [ATCOCode |-> k, NaptanCode |-> StopCode(k),
     Longitude |-> StopXY(k)[1], Latitude |-> StopXY(k)[2]]

\* the members of S among 1..n, in ascending order
Ascending(S, n) == SelectSeq([k \in 1..n |-> k], LAMBDA k : k \in S)

\* the rows of the chosen incidents
CrimeRows(S, n) == [i \in 1..Len(Ascending(S, n)) |-> CrimeRow(Ascending(S, n)[i])]

\* the rows of the chosen stops
StopRows(S, n) == [i \in 1..Len(Ascending(S, n)) |-> StopRow(Ascending(S, n)[i])]

File(name, rows) == [name |-> name, files |-> <<>>, rows |-> rows]

Dir(name, files) == [name |-> name, files |-> files, rows |-> <<>>]

NotesTxt == File(<<"notes", ".txt">>, <<>>)

\* the crime download main reads: the chosen incidents, the odd ones in
\* 2023-01, the even ones in 2023-02; a month without incidents has no
\* directory
MainCrimeTree(S) ==
    LET odd == {k \in S : k % 2 = 1}
        even == S \ odd
    IN (IF odd = {} THEN <<>>
        ELSE <<Dir(<<"2023", "-01">>,
                   <<NotesTxt,
                     File(<<"2023-01-street", ".csv">>, CrimeRows(odd, MaxIncidents))>>)>>)
       \o
       (IF even = {} THEN <<>>
        ELSE <<Dir(<<"2023", "-02">>,
                   <<File(<<"2023-02-street", ".csv">>, CrimeRows(even, MaxIncidents))>>)>>)

NaptanLayouts == {"one", "several", "none"}

\* the NaPTAN directory main reads
MainNaptanListing(T, layout) ==
    LET stops == File(<<"Stops", ".csv">>, StopRows(T, MaxStops))
        old == File(<<"Stops_old", ".csv">>, StopRows(1..MaxStops, MaxStops))
    IN CASE layout = "one" -> <<stops>>
         [] layout = "several" -> <<NotesTxt, stops, old>>
         [] OTHER -> <<NotesTxt>>

\* ------------------------------------------------------------------------
\* State
\* ------------------------------------------------------------------------
VARIABLES
    fs,                       \* the file system: root path -> listing
    missing,                  \* the geometry of a row without coordinates
    pc,                       \* main: the statement it is at
    crime_data,               \* main: year -> dataset name -> table
    combined_crime_data,      \* main: the incident table
    naptan_data,              \* main: the stop table
    printed,                  \* main: the counts it has printed
    crime_near_naptan_stops,  \* main: the join result
    crimes_per_stop,          \* main: the aggregate rows
    exc,                      \* main: the exception that ended it
    joined_left,              \* the left table handed to sjoin
    joined_right,             \* the right table handed to sjoin
    unverified,               \* a conversion ended with the wrong CRS
    nargs,                    \* read_naptan_data: its arguments
    nst,                      \* read_naptan_data: position and locals
    cargs,                    \* read_and_create_geo_data: its arguments
    cst,                      \* read_and_create_geo_data: position and locals
    gdf_in,                   \* check_crs: the table given
    crs_in,                   \* check_crs: the target CRS given
    once,                     \* check_crs(gdf_in, crs_in)
    twice                     \* check_crs(once.gdf, crs_in)

mainVars == <<pc, crime_data, combined_crime_data, naptan_data, printed,
              crime_near_naptan_stops, crimes_per_stop, exc, joined_left,
              joined_right, unverified>>

naptanVars == <<nargs, nst>>

crimeVars == <<cargs, cst>>

crsVars == <<gdf_in, crs_in, once, twice>>

vars == <<fs, missing, mainVars, naptanVars, crimeVars, crsVars>>

\* the value of a variable no statement has assigned yet
Unset == [type |-> "unset"]

MainIdle ==
    /\ pc = "off"
    /\ crime_data = Unset
    /\ combined_crime_data = Unset
    /\ naptan_data = Unset
    /\ printed = <<>>
    /\ crime_near_naptan_stops = Unset
    /\ crimes_per_stop = Unset
    /\ exc = NoExc
    /\ joined_left = Unset
    /\ joined_right = Unset
    /\ unverified = FALSE

NaptanIdle == nargs = Unset /\ nst = Unset

CrimeIdle == cargs = Unset /\ cst = Unset

CrsIdle == gdf_in = Unset /\ crs_in = None /\ once = Unset /\ twice = Unset

LoaderArgs(data_dir, export_geo, m) ==
    [data_dir |-> data_dir, x_col |-> "Longitude", y_col |-> "Latitude",
     crs |-> WGS84, export_geo |-> export_geo, missing |-> m]

\* ------------------------------------------------------------------------
\* main
\* ------------------------------------------------------------------------
Init ==
    /\ missing \in MissingGeometries
    /\ \E S \in SUBSET (1..MaxIncidents), T \in SUBSET (1..MaxStops),
          layout \in NaptanLayouts :
           fs = (CRIME_DATA_PATH :> MainCrimeTree(S)) @@
                (NAPTAN_DIR :> MainNaptanListing(T, layout))
    /\ pc = "load_crime"
    /\ crime_data = Unset
    /\ combined_crime_data = Unset
    /\ naptan_data = Unset
    /\ printed = <<>>
    /\ crime_near_naptan_stops = Unset
    /\ crimes_per_stop = Unset
    /\ exc = NoExc
    /\ joined_left = Unset
    /\ joined_right = Unset
    /\ unverified = FALSE
    /\ NaptanIdle /\ CrimeIdle /\ CrsIdle

Fail(e) ==
    /\ pc' = "failed"
    /\ exc' = e

\* lines 251-258: load the crime data and print the number of offences
LoadCrime ==
    /\ pc = "load_crime"
    /\ LET st == read_and_create_geo_data(fs, LoaderArgs(CRIME_DATA_PATH, FALSE, missing))
       IN IF st.pc = "raised"
          THEN /\ Fail(st.exc)
               /\ UNCHANGED <<crime_data, combined_crime_data, printed>>
          ELSE /\ crime_data' = st.all_data
               /\ combined_crime_data' = st.combined_data
               /\ printed' = Append(printed, <<"offences", Len(st.combined_data.rows)>>)
               /\ pc' = "load_naptan"
               /\ exc' = exc
    /\ UNCHANGED <<fs, missing, naptan_data, crime_near_naptan_stops, crimes_per_stop,
                   joined_left, joined_right, unverified, naptanVars, crimeVars, crsVars>>

\* lines 261-268: load the stops and print their number; len(None) raises
\* TypeError
LoadNaptan ==
    /\ pc = "load_naptan"
    /\ LET st == read_naptan_data(fs, LoaderArgs(NAPTAN_DIR, FALSE, missing))
       IN IF st.pc = "raised"
          THEN /\ Fail(st.exc)
               /\ UNCHANGED <<naptan_data, printed>>
          ELSE IF ~HasLen(st.ret)
          THEN /\ Fail(Exc("TypeError", {}))
               /\ naptan_data' = st.ret
               /\ printed' = printed
          ELSE /\ naptan_data' = st.ret
               /\ printed' = Append(printed, <<"stops", Len(st.ret.rows)>>)
               /\ pc' = "clean"
               /\ exc' = exc
    /\ UNCHANGED <<fs, missing, crime_data, combined_crime_data, crime_near_naptan_stops,
                   crimes_per_stop, joined_left, joined_right, unverified,
                   naptanVars, crimeVars, crsVars>>

\* lines 272-273: keep the rows whose geometry is not missing; pd.DataFrame()
\* has no column "geometry" and raises KeyError
Clean ==
    /\ pc = "clean"
    /\ IF GEOMETRY_COL \notin DOMAIN combined_crime_data.colcrs
       THEN /\ Fail(Exc("KeyError", {GEOMETRY_COL}))
            /\ naptan_data' = notna_rows(naptan_data)
            /\ UNCHANGED combined_crime_data
       ELSE /\ naptan_data' = notna_rows(naptan_data)
            /\ combined_crime_data' = notna_rows(combined_crime_data)
            /\ pc' = "buffer"
            /\ exc' = exc
    /\ UNCHANGED <<fs, missing, crime_data, printed, crime_near_naptan_stops,
                   crimes_per_stop, joined_left, joined_right, unverified,
                   naptanVars, crimeVars, crsVars>>

\* lines 280-284: buffer the stops
Buffer ==
    /\ pc = "buffer"
    /\ \E ok \in BOOLEAN :
          LET r == apply_point_buffer(naptan_data, NAPTAN_BUFFER_M, GEOMETRY_COL, ok)
          IN /\ unverified' = (unverified \/ Crs(r.gdf) # OSGB)
             /\ IF r.exc # NoExc
                THEN Fail(r.exc) /\ UNCHANGED naptan_data
                ELSE /\ naptan_data' = r.gdf
                     /\ pc' = "set_geometry"
                     /\ exc' = exc
    /\ UNCHANGED <<fs, missing, crime_data, combined_crime_data, printed,
                   crime_near_naptan_stops, crimes_per_stop, joined_left, joined_right,
                   naptanVars, crimeVars, crsVars>>

\* lines 290-294: drop the points, make the buffers the geometry
SetGeometry ==
    /\ pc = "set_geometry"
    /\ naptan_data' = set_buffer_geometry(naptan_data)
    /\ pc' = "check_crs_naptan"
    /\ UNCHANGED <<fs, missing, crime_data, combined_crime_data, printed,
                   crime_near_naptan_stops, crimes_per_stop, exc, joined_left,
                   joined_right, unverified, naptanVars, crimeVars, crsVars>>

\* line 296
CheckCrsNaptan ==
    /\ pc = "check_crs_naptan"
    /\ \E oks \in BOOLEAN \X BOOLEAN :
          LET r == check_crs(naptan_data, OSGB, oks)
          IN /\ unverified' = (unverified \/ Crs(r.gdf) # OSGB)
             /\ IF r.exc # NoExc
                THEN Fail(r.exc) /\ UNCHANGED naptan_data
                ELSE /\ naptan_data' = r.gdf
                     /\ pc' = "check_crs_crime"
                     /\ exc' = exc
    /\ UNCHANGED <<fs, missing, crime_data, combined_crime_data, printed,
                   crime_near_naptan_stops, crimes_per_stop, joined_left, joined_right,
                   naptanVars, crimeVars, crsVars>>

\* line 297
CheckCrsCrime ==
    /\ pc = "check_crs_crime"
    /\ \E oks \in BOOLEAN \X BOOLEAN :
          LET r == check_crs(combined_crime_data, OSGB, oks)
          IN /\ unverified' = (unverified \/ Crs(r.gdf) # OSGB)
             /\ IF r.exc # NoExc
                THEN Fail(r.exc) /\ UNCHANGED combined_crime_data
                ELSE /\ combined_crime_data' = r.gdf
                     /\ pc' = "sjoin"
                     /\ exc' = exc
    /\ UNCHANGED <<fs, missing, crime_data, naptan_data, printed,
                   crime_near_naptan_stops, crimes_per_stop, joined_left, joined_right,
                   naptanVars, crimeVars, crsVars>>

\* lines 299-307: the join, and the unit count of each joined row
SJoin ==
    /\ pc = "sjoin"
    /\ joined_left' = combined_crime_data
    /\ joined_right' = naptan_data
    /\ crime_near_naptan_stops' =
          LET j == sjoin(combined_crime_data, naptan_data)
          IN [i \in 1..Len(j) |-> j[i] @@ [crime_count |-> 1]]
    /\ pc' = "aggregate"
    /\ UNCHANGED <<fs, missing, crime_data, combined_crime_data, naptan_data, printed,
                   crimes_per_stop, exc, unverified, naptanVars, crimeVars, crsVars>>

\* lines 310-324: the counts per (NaptanCode, Crime type), and their number.
\* Of the columns .sum() adds up only crime_count is kept here; the selection
\* of lines 314-321 reads columns and changes no value.
Aggregate ==
    /\ pc = "aggregate"
    /\ crimes_per_stop' = groupby_sum(crime_near_naptan_stops)
    /\ printed' = Append(printed,
                     <<"stops have crime", Cardinality(groupby_sum(crime_near_naptan_stops))>>)
    /\ pc' = "done"
    /\ UNCHANGED <<fs, missing, crime_data, combined_crime_data, naptan_data,
                   crime_near_naptan_stops, exc, joined_left, joined_right, unverified,
                   naptanVars, crimeVars, crsVars>>

Next ==
    \/ LoadCrime
    \/ LoadNaptan
    \/ Clean
    \/ Buffer
    \/ SetGeometry
    \/ CheckCrsNaptan
    \/ CheckCrsCrime
    \/ SJoin
    \/ Aggregate

Spec == Init /\ [][Next]_vars

\* ------------------------------------------------------------------------
\* read_naptan_data on its own
\* ------------------------------------------------------------------------
\* files a NaPTAN directory may hold; "Stops.csv.bak" has ".csv" in its name
NaptanFiles ==
    {File(<<"Stops", ".csv">>, StopRows(1..MaxStops, MaxStops)),
     File(<<"Stops_old", ".csv">>, <<StopRow(1)>>),
     File(<<"Stops", ".csv", ".bak">>, <<StopRow(2)>>),
     File(<<"geo_", "Stops", ".gpkg">>, <<>>),
     NotesTxt}

\* the listings of at most MaxFiles distinct files
NaptanListings ==
    {l \in UNION {[1..n -> NaptanFiles] : n \in 0..MaxFiles} :
        \A i, j \in 1..Len(l) : i # j => l[i] # l[j]}

InitNaptan ==
    /\ missing \in MissingGeometries
    /\ fs \in {<<>>} \cup {(NAPTAN_DIR :> l) : l \in NaptanListings}
    /\ \E export_geo \in BOOLEAN : nargs = LoaderArgs(NAPTAN_DIR, export_geo, missing)
    /\ nst = naptan_start
    /\ MainIdle /\ CrimeIdle /\ CrsIdle

\* lines 52-56
NaptanListdir ==
    /\ nst.pc = "listdir"
    /\ nst' = naptan_step(nst, fs, nargs)
    /\ UNCHANGED <<fs, missing, nargs, mainVars, crimeVars, crsVars>>

\* lines 58-79
NaptanForFile ==
    /\ nst.pc = "for_file"
    /\ nst' = naptan_step(nst, fs, nargs)
    /\ UNCHANGED <<fs, missing, nargs, mainVars, crimeVars, crsVars>>

NextNaptan == NaptanListdir \/ NaptanForFile

SpecNaptan == InitNaptan /\ [][NextNaptan]_vars

\* ------------------------------------------------------------------------
\* read_and_create_geo_data on its own
\* ------------------------------------------------------------------------
OTHER_DIR == "D:/Crime Data"

CrimeDirNames == <<<<"2023", "-01">>, <<"2023", "-02">>, <<"2024", "-01">>>>

DirOptions == {"absent", "notes", "street", "both"}

\* the rows of file f of the d-th directory, in the copy `variant` of the data
CrimeFileRows(variant, d, f, n) ==
    [i \in 1..n |->
        ("Crime ID" :> (((variant * 10) + d) * 10 + f) * 10 + i) @@
        ("Crime type" :> IncidentType(i + 2)) @@
        [Longitude |-> IncidentXY(i + 2)[1], Latitude |-> IncidentXY(i + 2)[2]]]

CrimeDirFiles(variant, d, option) ==
    LET street == File(<<"street", ".csv">>, CrimeFileRows(variant, d, 1, d + variant))
        outcomes == File(<<"outcomes", ".csv">>, CrimeFileRows(variant, d, 2, 1))
    IN CASE option = "notes" -> <<NotesTxt>>
         [] option = "street" -> <<street>>
         [] OTHER -> <<outcomes, NotesTxt, street>>

\* a download: the directories sel keeps, in ascending or descending order
CrimeTree(sel, rev, variant) ==
    LET n == Len(CrimeDirNames)
        order == [i \in 1..n |-> IF rev THEN n + 1 - i ELSE i]
        kept == SelectSeq(order, LAMBDA d : sel[d] # "absent")
    IN [i \in 1..Len(kept) |->
           Dir(CrimeDirNames[kept[i]], CrimeDirFiles(variant, kept[i], sel[kept[i]]))]

\* how the directory given relates to CRIME_DATA_PATH
RootLayouts == {"is_default", "missing", "mirror", "differs", "no_default"}

InitCrime ==
    /\ missing \in MissingGeometries
    /\ \E sel \in [1..Len(CrimeDirNames) -> DirOptions], rev \in BOOLEAN,
          layout \in RootLayouts, export_geo \in BOOLEAN :
          LET tree == CrimeTree(sel, rev, 0)
              full == CrimeTree([d \in 1..Len(CrimeDirNames) |-> "street"], FALSE, 1)
          IN /\ fs = CASE layout = "is_default" -> (CRIME_DATA_PATH :> tree)
                        [] layout = "missing" -> <<>>
                        [] layout = "mirror" -> (OTHER_DIR :> tree) @@ (CRIME_DATA_PATH :> tree)
                        [] layout = "differs" -> (OTHER_DIR :> tree) @@ (CRIME_DATA_PATH :> full)
                        [] OTHER -> (OTHER_DIR :> tree)
             /\ cargs = LoaderArgs(IF layout \in {"is_default", "missing"}
                                   THEN CRIME_DATA_PATH ELSE OTHER_DIR,
                                   export_geo, missing)
    /\ cst = crime_start
    /\ MainIdle /\ NaptanIdle /\ CrsIdle

\* line 108
CrimeListdir ==
    /\ cst.pc = "listdir"
    /\ cst' = crime_step(cst, fs, cargs)
    /\ UNCHANGED <<fs, missing, cargs, mainVars, naptanVars, crsVars>>

\* lines 123-138, and line 163 when the directories are exhausted
CrimeForDir ==
    /\ cst.pc = "for_dir"
    /\ cst' = crime_step(cst, fs, cargs)
    /\ UNCHANGED <<fs, missing, cargs, mainVars, naptanVars, crsVars>>

\* lines 141-161
CrimeForFile ==
    /\ cst.pc = "for_file"
    /\ cst' = crime_step(cst, fs, cargs)
    /\ UNCHANGED <<fs, missing, cargs, mainVars, naptanVars, crsVars>>

NextCrime == CrimeListdir \/ CrimeForDir \/ CrimeForFile

SpecCrime == InitCrime /\ [][NextCrime]_vars

\* ------------------------------------------------------------------------
\* check_crs on its own
\* ------------------------------------------------------------------------
CrsGeometries == {Point(1, 0), Point(20, 5), Point(15, 0), NaNPoint}

CrsTables ==
    {[type |-> "GeoDataFrame", active |-> "geometry", colcrs |-> ("geometry" :> tag),
      rows |-> [i \in 1..Len(g) |-> [geometry |-> g[i]]]] :
        tag \in {WGS84, OSGB, None},
        g \in UNION {[1..n -> CrsGeometries] : n \in 0..MaxPts}}

InitCrs ==
    /\ missing \in MissingGeometries
    /\ fs = <<>>
    /\ gdf_in \in CrsTables
    /\ crs_in \in {WGS84, OSGB}
    /\ once = Unset
    /\ twice = Unset
    /\ MainIdle /\ NaptanIdle /\ CrimeIdle

\* check_crs(gdf_in, crs_in)
NormalizeOnce ==
    /\ once = Unset
    /\ \E oks \in BOOLEAN \X BOOLEAN : once' = check_crs(gdf_in, crs_in, oks)
    /\ UNCHANGED <<fs, missing, gdf_in, crs_in, twice, mainVars, naptanVars, crimeVars>>

\* check_crs(check_crs(gdf_in, crs_in), crs_in)
NormalizeTwice ==
    /\ once # Unset
    /\ once.exc = NoExc
    /\ twice = Unset
    /\ \E oks \in BOOLEAN \X BOOLEAN : twice' = check_crs(once.gdf, crs_in, oks)
    /\ UNCHANGED <<fs, missing, gdf_in, crs_in, once, mainVars, naptanVars, crimeVars>>

NextCrs == NormalizeOnce \/ NormalizeTwice

SpecCrs == InitCrs /\ [][NextCrs]_vars

\* ------------------------------------------------------------------------
\* The inputs as the files hold them, for stating the properties
\* ------------------------------------------------------------------------
RECURSIVE ConcatAll(_)
ConcatAll(ss) == IF ss = <<>> THEN <<>> ELSE Head(ss) \o ConcatAll(Tail(ss))

\* the rows of the CSV files of a listing, in listing order
CsvRows(entries) ==
    ConcatAll([i \in 1..Len(entries) |->
                  IF Contains(entries[i].name, ".csv") THEN entries[i].rows ELSE <<>>])

\* the rows of every CSV file in the subdirectories of a root
RowsUnder(root) ==
    IF root \notin DOMAIN fs THEN <<>>
    ELSE ConcatAll([i \in 1..Len(fs[root]) |-> CsvRows(fs[root][i].files)])

\* the positions of the eligible files in a listing
EligibleIdx(entries) == {i \in 1..Len(entries) : Contains(entries[i].name, ".csv")}

FirstEligible(entries) ==
    entries[CHOOSE i \in EligibleIdx(entries) : \A j \in EligibleIdx(entries) : i <= j]

HasCoords(row) == row.Longitude # NaN /\ row.Latitude # NaN

\* the incident lies less than NAPTAN_BUFFER_M metres from the stop
Near(incident, stop) ==
    /\ HasCoords(incident)
    /\ HasCoords(stop)
    /\ LET dx == (incident.Longitude[1] - stop.Longitude[1]) * MetresPerUnit
           dy == (incident.Latitude[1] - stop.Latitude[1]) * MetresPerUnit
       IN dx * dx + dy * dy < NAPTAN_BUFFER_M * NAPTAN_BUFFER_M

RawIncidents == RowsUnder(CRIME_DATA_PATH)

RawStops == FirstEligible(fs[NAPTAN_DIR]).rows

Joined == pc \in {"aggregate", "done"}

\* the joined rows of one incident and one stop
JoinedRowsOf(incident, stop) ==
    {k \in 1..Len(crime_near_naptan_stops) :
        /\ crime_near_naptan_stops[k]["Crime ID"] = incident["Crime ID"]
        /\ crime_near_naptan_stops[k].ATCOCode = stop.ATCOCode}

\* ------------------------------------------------------------------------
\* Properties
\* ------------------------------------------------------------------------

\* C1: check_crs is idempotent and a no-op on a matching table: when
\* check_crs(T, c) succeeds, check_crs of its result returns that result
\* unchanged without calling to_crs, and when T already carries c it is
\* returned unchanged without calling to_crs.
C1_Idempotent ==
    /\ twice # Unset =>
          /\ twice.exc = NoExc
          /\ twice.gdf = once.gdf
          /\ twice.attempts = 0
    /\ (once # Unset /\ Crs(gdf_in) = crs_in) =>
          /\ once.exc = NoExc
          /\ once.gdf = gdf_in
          /\ once.attempts = 0

C1_Witness ==
    /\ twice # Unset
    /\ once.attempts >= 1
    /\ once.gdf # gdf_in
    /\ \E i \in 1..Len(gdf_in.rows) : gdf_in.rows[i].geometry.kind = "point"

\* C2: when a table that carries a CRS still does not carry the target CRS
\* after check_crs attempted the reprojection, the failure is a typed
\* CRS-mismatch error that names the offending CRS.
C2_TypedMismatch ==
    (/\ once # Unset
     /\ Crs(gdf_in) # None
     /\ once.attempts >= 1
     /\ Crs(once.gdf) # crs_in) =>
        /\ once.exc.type = "CrsMismatch"
        /\ Crs(once.gdf) \in once.exc.names

\* C3: no row with a missing geometry, and no incident without latitude or
\* longitude, is an input of the spatial join or appears in its result.
C3_NoMissingAtJoin ==
    Joined =>
        /\ \A i \in 1..Len(joined_left.rows) :
              /\ joined_left.rows[i][joined_left.active] # Null
              /\ HasCoords(joined_left.rows[i])
        /\ \A i \in 1..Len(joined_right.rows) :
              joined_right.rows[i][joined_right.active] # Null
        /\ \A k \in 1..Len(crime_near_naptan_stops) :
              /\ crime_near_naptan_stops[k].Longitude_left # NaN
              /\ crime_near_naptan_stops[k].Latitude_left # NaN

\* C4: the number of offences main prints counts only the incidents that
\* have coordinates.
C4_CountAfterFilter ==
    \A i \in 1..Len(printed) :
        printed[i][1] = "offences" =>
            printed[i][2] = Cardinality({a \in 1..Len(RawIncidents) :
                                            HasCoords(RawIncidents[a])})

\* C5: the join result holds exactly one row for every pair of an incident
\* and a stop of the input files with the incident less than NAPTAN_BUFFER_M
\* metres from the stop, and no other row.
C5_JoinFanOut ==
    Joined =>
        /\ \A a \in 1..Len(RawIncidents), b \in 1..Len(RawStops) :
              Cardinality(JoinedRowsOf(RawIncidents[a], RawStops[b]))
                 = IF Near(RawIncidents[a], RawStops[b]) THEN 1 ELSE 0
        /\ Len(crime_near_naptan_stops)
              = Cardinality({p \in (1..Len(RawIncidents)) \X (1..Len(RawStops)) :
                                Near(RawIncidents[p[1]], RawStops[p[2]])})

\* an incident within two buffers has two joined rows, one per stop, and an
\* incident with coordinates within no buffer has none
C5_Witness ==
    /\ pc = "done"
    /\ \E a \in 1..Len(RawIncidents) :
          \E b, c \in 1..Len(RawStops) :
             /\ b # c
             /\ Cardinality(JoinedRowsOf(RawIncidents[a], RawStops[b])) = 1
             /\ Cardinality(JoinedRowsOf(RawIncidents[a], RawStops[c])) = 1
    /\ \E a \in 1..Len(RawIncidents) :
          /\ HasCoords(RawIncidents[a])
          /\ \A k \in 1..Len(crime_near_naptan_stops) :
                crime_near_naptan_stops[k]["Crime ID"] # RawIncidents[a]["Crime ID"]

\* C6: the aggregate has exactly one row for every (NaptanCode, Crime type)
\* combination of the join result, and its crime_count is the number of
\* joined rows of that combination.
C6_OneRowPerGroup ==
    pc = "done" =>
        \A k \in 1..Len(crime_near_naptan_stops) :
            LET row == crime_near_naptan_stops[k]
                group == {j \in 1..Len(crime_near_naptan_stops) :
                             /\ crime_near_naptan_stops[j].NaptanCode = row.NaptanCode
                             /\ crime_near_naptan_stops[j]["Crime type"] = row["Crime type"]}
            IN Cardinality({g \in crimes_per_stop :
                               /\ g.NaptanCode = row.NaptanCode
                               /\ g["Crime type"] = row["Crime type"]
                               /\ g.crime_count = Cardinality(group)}) = 1

\* C7: read_naptan_data reads, converts and exports only the first eligible
\* file of the listing and returns the table converted from it.
C7_LoadFirst ==
    (nst # Unset /\ NAPTAN_DIR \in DOMAIN fs /\ EligibleIdx(fs[NAPTAN_DIR]) # {}) =>
        LET first == FirstEligible(fs[NAPTAN_DIR])
        IN /\ Len(nst.read) <= 1
           /\ \A i \in 1..Len(nst.read) : nst.read[i] = first.name
           /\ \A i \in 1..Len(nst.written) :
                 nst.written[i] = <<"geo_">> \o Replace(first.name, ".csv", ".gpkg")
           /\ Len(nst.written) <= 1
           /\ nst.pc = "returned" =>
                 /\ nst.read = <<first.name>>
                 /\ Len(nst.written) = (IF nargs.export_geo THEN 1 ELSE 0)
                 /\ nst.ret.type = "GeoDataFrame"
                 /\ Crs(nst.ret) = WGS84
                 /\ Len(nst.ret.rows) = Len(first.rows)
                 /\ \A i \in 1..Len(first.rows) :
                       /\ nst.ret.rows[i].ATCOCode = first.rows[i].ATCOCode
                       /\ nst.ret.rows[i].NaptanCode = first.rows[i].NaptanCode

C7_Witness ==
    /\ nst # Unset
    /\ nst.pc = "returned"
    /\ Cardinality(EligibleIdx(fs[NAPTAN_DIR])) >= 2
    /\ nst.read = <<FirstEligible(fs[NAPTAN_DIR]).name>>
    /\ nargs.export_geo

\* C8: when the directory given holds no eligible CSV file, read_naptan_data
\* itself ends with a failure that names the directory.
C8_FailFast ==
    (/\ nst # Unset
     /\ nst.pc \in {"returned", "raised"}
     /\ (NAPTAN_DIR \notin DOMAIN fs \/ EligibleIdx(fs[NAPTAN_DIR]) = {})) =>
        /\ nst.pc = "raised"
        /\ nargs.data_dir \in nst.exc.names

\* the datasets of the mapping, as <<year, name>>
Datasets(all_data) == UNION {{<<y, n>> : n \in DOMAIN all_data[y]} : y \in DOMAIN all_data}

RECURSIVE SumRows(_, _)
SumRows(all_data, ds) ==
    IF ds = {} THEN 0
    ELSE LET d == CHOOSE e \in ds : TRUE
         IN Len(all_data[d[1]][d[2]].rows) + SumRows(all_data, ds \ {d})

\* the CSV files in the subdirectories of a root, as <<directory, file>>
CsvFilesUnder(root) ==
    IF root \notin DOMAIN fs THEN {}
    ELSE UNION {{<<i, j>> : j \in EligibleIdx(fs[root][i].files)} : i \in 1..Len(fs[root])}

\* C9: after every file the combined table has as many rows as the tables of
\* the mapping together, and when the loader returns the mapping holds
\* exactly the CSV files in the subdirectories of the directory given, each
\* once, and the combined table their rows.
C9_MappingIsInput ==
    (cst # Unset /\ cst.pc # "raised") =>
        /\ Len(cst.combined_data.rows) = SumRows(cst.all_data, Datasets(cst.all_data))
        /\ cst.pc = "returned" =>
              /\ Cardinality(Datasets(cst.all_data)) = Cardinality(CsvFilesUnder(cargs.data_dir))
              /\ \A p \in CsvFilesUnder(cargs.data_dir) :
                    LET d == fs[cargs.data_dir][p[1]]
                        f == d.files[p[2]]
                    IN /\ <<d.name[1], Remove(f.name, ".csv")>> \in Datasets(cst.all_data)
                       /\ Len(cst.all_data[d.name[1]][Remove(f.name, ".csv")].rows) = Len(f.rows)
                       /\ \A i \in 1..Len(f.rows) :
                             cst.all_data[d.name[1]][Remove(f.name, ".csv")].rows[i]["Crime ID"]
                                = f.rows[i]["Crime ID"]
              /\ Len(cst.combined_data.rows) = Len(RowsUnder(cargs.data_dir))

\* the preconditions of the join on a left and a right table
JoinPreconditions(left_df, right_df) ==
    /\ Crs(left_df) = OSGB
    /\ Crs(right_df) = OSGB
    /\ right_df.active = "buffered_geometry"
    /\ GEOMETRY_COL \notin DOMAIN right_df.colcrs
    /\ \A i \in 1..Len(right_df.rows) :
          /\ GEOMETRY_COL \notin DOMAIN right_df.rows[i]
          /\ right_df.rows[i].buffered_geometry.kind \in {"polygon", "empty_polygon"}
          /\ right_df.rows[i].buffered_geometry.kind = "polygon" =>
                right_df.rows[i].buffered_geometry.r = NAPTAN_BUFFER_M

\* C10: whenever main is at the join, and for the tables it joined, both
\* tables carry EPSG:27700, the stops are buffered, their point column is
\* gone and the buffers are their geometry, and no conversion before it ended
\* with another CRS.
C10_JoinPreconditions ==
    /\ pc = "sjoin" =>
          JoinPreconditions(combined_crime_data, naptan_data) /\ ~unverified
    /\ Joined => JoinPreconditions(joined_left, joined_right) /\ ~unverified

C10_Witness ==
    /\ pc = "sjoin"
    /\ Len(combined_crime_data.rows) > 0
    /\ Len(naptan_data.rows) > 0
    /\ \E i \in 1..Len(combined_crime_data.rows) :
          combined_crime_data.rows[i].geometry.kind = "point"

====
